---- MODULE Spec2Model ----
(***************************************************************************)
(* TenderAI proposal evaluation engine (tenderai/agents/evaluate_agent.py) *)
(* as a state machine: one evaluate_proposal call for one vendor.          *)
(*                                                                         *)
(* Numbers are fixed point.  Percentages (raw_score, match_percentage,     *)
(* score_cap) are integers in tenths of a percent (14.5 % is 145).  Type   *)
(* weights are in tenths (0.8 is 8), priority weights are whole numbers,   *)
(* confidences are in hundredths (0.95 is 95).  round(x, 1) is modelled on *)
(* the exact quotient with ties to even.                                   *)
(***************************************************************************)
EXTENDS Integers, Sequences, FiniteSets, TLC

VARIABLES
    doc,            \* requirements_doc.requirements: sequence of Requirement
    pc,             \* position of the thread running evaluate_proposal
    chunks,         \* _run_llm_evaluation: chunks
    worker,         \* per chunk: state of the future running _evaluate_chunk
    out,            \* per chunk: the value its future returns
    collected,      \* chunk indices whose f.result() was stored in results
    results,        \* _run_llm_evaluation: results
    raw_scores,     \* evaluate_proposal: raw_scores (flattened)
    mandatory_gate, \* evaluate_proposal: mandatory_gate
    raw_score,      \* evaluate_proposal: raw_score (tenths of a percent)
    evaluation,     \* <<e>> once evaluate_proposal returned ProposalEvaluation e
    unit,           \* a direct call of one pure function: its arguments and result
    hist,           \* the dispatch so far: oracle calls per chunk, order of the as_completed
                    \* loop, chunk calls running when a failure was seen
    batch           \* the Evaluate Proposals page's batch run (app.py)

vars == <<doc, pc, chunks, worker, out, collected, results, raw_scores,
          mandatory_gate, raw_score, evaluation, unit, hist, batch>>

----------------------------------------------------------------------------
(* Bounds of the model *)

MaxReqs == 2        \* requirements in a document of the scoring specification
MaxScores == 3      \* scores one oracle answer carries in the scoring specification
MaxN == 37          \* requirements in a document of the dispatch specification
MaxFailures == 3    \* gate failures in a direct call of _get_recommendation
MaxRecords == 2     \* records in the scores list of an oracle payload
MaxLoads == 3       \* load_data calls whose outcome the extraction service has ready
MaxProposals == 5   \* proposal files of a batch
MaxFairN == 17      \* requirements in a document of the fair runs (two chunks)

(* Program constants *)

CHUNK_SIZE == 15
DEFAULT_CAP == 400

SCORE_CAPS == (0 :> 1000) @@ (1 :> 750) @@ (2 :> 600)

TYPE_WEIGHTS ==
    [t \in {"mandatory", "integration", "technical", "functional", "delivery"} |->
        CASE t = "mandatory"   -> 30
          [] t = "integration" -> 20
          [] t = "technical"   -> 15
          [] t = "functional"  -> 10
          [] t = "delivery"    -> 8]

PRIORITY_WEIGHTS ==
    [p \in {"High", "Medium", "Low"} |->
        CASE p = "High" -> 3 [] p = "Medium" -> 2 [] p = "Low" -> 1]

----------------------------------------------------------------------------
(* Input domains *)

\* The (type, priority) pairs a Requirement of the scoring specification takes.
ReqKinds ==
    { <<"mandatory", "High">>, <<"functional", "Medium">>, <<"delivery", "Low">> }

\* Requirement ids are numbers; the k-th requirement of a document has id k
\* (ids are unique within a document).  
MakeDoc(kinds) ==
    [k \in 1..Len(kinds) |-> [id |-> k, type |-> kinds[k][1], priority |-> kinds[k][2]]]

SeqsUpTo(S, n) == UNION { [1..k -> S] : k \in 0..n }

ScoringDocs == { MakeDoc(kinds) : kinds \in SeqsUpTo(ReqKinds, MaxReqs) }

\* RequirementScore, reduced to the fields gate, scorer and recommendation read.
\* confidence obeys Field(ge=0.0, le=1.0).  An id that exceeds the document's
\* length references no requirement (an orphan id).
ScoreRecords ==
    { s \in [requirement_id : {1, 2}, requirement_type : {"mandatory", "functional"},
             met : BOOLEAN, confidence : {80, 100}] : s.met \/ s.confidence = 80 }

ScoringAnswers(chunk) == SeqsUpTo(ScoreRecords, MaxScores)

\* A document of N requirements for the dispatch specification.
BigDoc(n) ==
    [k \in 1..n |-> [id |-> k,
                     type |-> IF k % 10 = 1 THEN "mandatory" ELSE "functional",
                     priority |-> "Medium"]]

ScoreFor(r, m) ==
    [requirement_id |-> r.id, requirement_type |-> r.type, met |-> m, confidence |-> 100]

\* Oracle answers of the dispatch specification: one score per requirement of
\* the chunk in request order (all met, or all unmet), the same with the last
\* requirement left out, and the same with the first requirement scored twice.
DispatchAnswers(chunk) ==
    LET exact(m) == [k \in 1..Len(chunk) |-> ScoreFor(chunk[k], m)]
    IN  { exact(TRUE), exact(FALSE),
          SubSeq(exact(TRUE), 1, Len(chunk) - 1),
          <<ScoreFor(chunk[1], FALSE)>> \o exact(TRUE) }

----------------------------------------------------------------------------
(* Pure functions of EvaluateAgent *)

Min(a, b) == IF a <= b THEN a ELSE b

\* round(num / den, 0) on the exact quotient, ties to even; num >= 0, den > 0.
RoundHalfEven(num, den) ==
    LET q == num \div den
        r == num % den
    IN  IF 2 * r < den THEN q
        ELSE IF 2 * r > den THEN q + 1
        ELSE IF q % 2 = 0 THEN q ELSE q + 1

\* {r.id: r.type for r in requirements}.get(id, default): the last entry wins.
TypeMapGet(d, id, default) ==
    LET hits == { k \in 1..Len(d) : d[k].id = id }
    IN  IF hits = {} THEN default
        ELSE d[CHOOSE k \in hits : \A j \in hits : j <= k].type

\* {r.id: r.priority for r in requirements}.get(id, default)
PriorityMapGet(d, id, default) ==
    LET hits == { k \in 1..Len(d) : d[k].id = id }
    IN  IF hits = {} THEN default
        ELSE d[CHOOSE k \in hits : \A j \in hits : j <= k].priority

\* Mutant: a count outside the table gets the table's last cap.
ScoreCapClamped(k) == IF k \in DOMAIN SCORE_CAPS THEN SCORE_CAPS[k] ELSE SCORE_CAPS[2]

\* SCORE_CAPS.get(k, DEFAULT_CAP)
ScoreCap(k) == IF k \in DOMAIN SCORE_CAPS THEN SCORE_CAPS[k] ELSE DEFAULT_CAP

\* TYPE_WEIGHTS.get(t, 1.0)
TypeWeight(t) == IF t \in DOMAIN TYPE_WEIGHTS THEN TYPE_WEIGHTS[t] ELSE 10

\* Mutant: a priority outside the table weighs as Medium.
PriorityWeightMediumDefault(p) ==
    IF p \in DOMAIN PRIORITY_WEIGHTS THEN PRIORITY_WEIGHTS[p] ELSE PRIORITY_WEIGHTS["Medium"]

\* PRIORITY_WEIGHTS.get(p, 1.0)
PriorityWeight(p) == IF p \in DOMAIN PRIORITY_WEIGHTS THEN PRIORITY_WEIGHTS[p] ELSE 1

\* Mutant: the slice's end is taken as inclusive.
ChunksInclusiveEnd(reqs) ==
    LET n == Len(reqs)
        starts == { i \in 0..(n - 1) : i % CHUNK_SIZE = 0 }
    IN  [k \in 1..Cardinality(starts) |->
            SubSeq(reqs, (k - 1) * CHUNK_SIZE + 1, Min((k - 1) * CHUNK_SIZE + CHUNK_SIZE + 1, n))]

\* reqs[i:i + CHUNK_SIZE] for i in range(0, len(reqs), CHUNK_SIZE)
Chunks(reqs) ==
    LET n == Len(reqs)
        starts == { i \in 0..(n - 1) : i % CHUNK_SIZE = 0 }
    IN  [k \in 1..Cardinality(starts) |->
            SubSeq(reqs, (k - 1) * CHUNK_SIZE + 1, Min((k - 1) * CHUNK_SIZE + CHUNK_SIZE, n))]

\* Mutant: only the first chunk's result is returned.
FlattenFirstChunk(rs) == IF rs = <<>> THEN <<>> ELSE Head(rs)

\* [s for chunk in results for s in chunk]
RECURSIVE Flatten(_)
Flatten(rs) == IF rs = <<>> THEN <<>> ELSE Head(rs) \o Flatten(Tail(rs))

\* Mutant: the gate trusts the score's carried type.
GateTypeCarried(s, d) == s.requirement_type

\* The resolved type the mandatory gate gives a score.
GateType(s, d) == TypeMapGet(d, s.requirement_id, s.requirement_type)

\* failed_ids of _compute_mandatory_gate
RECURSIVE FailedIds(_, _)
FailedIds(scores, d) ==
    IF scores = <<>> THEN <<>>
    ELSE (IF GateType(Head(scores), d) = "mandatory" /\ ~Head(scores).met
          THEN <<Head(scores).requirement_id>> ELSE <<>>)
         \o FailedIds(Tail(scores), d)

compute_mandatory_gate(scores, d) ==
    LET failed_ids == FailedIds(scores, d)
    IN  [passed |-> Len(failed_ids) = 0,
         failures |-> failed_ids,
         score_cap |-> ScoreCap(Len(failed_ids))]

\* The resolved type the weighted scorer gives a score.
ScorerType(s, d) == TypeMapGet(d, s.requirement_id, "functional")

\* Mutant: a score whose id does not resolve gets no weight.
WeightResolvedOnly(s, d) ==
    IF \E k \in 1..Len(d) : d[k].id = s.requirement_id
    THEN TypeWeight(ScorerType(s, d))
         * PriorityWeight(PriorityMapGet(d, s.requirement_id, "Medium"))
    ELSE 0

\* w of _compute_weighted_score, in tenths
Weight(s, d) ==
    TypeWeight(ScorerType(s, d))
    * PriorityWeight(PriorityMapGet(d, s.requirement_id, "Medium"))

\* Mutant: an unmet score earns its confidence too.
EarnedIgnoringMet(s, d) == Weight(s, d) * s.confidence

\* what one score adds to earned, in thousandths
Earned(s, d) == IF s.met THEN Weight(s, d) * s.confidence ELSE 0

RECURSIVE TotalWeight(_, _)
TotalWeight(scores, d) ==
    IF scores = <<>> THEN 0 ELSE Weight(Head(scores), d) + TotalWeight(Tail(scores), d)

RECURSIVE EarnedWeight(_, _)
EarnedWeight(scores, d) ==
    IF scores = <<>> THEN 0 ELSE Earned(Head(scores), d) + EarnedWeight(Tail(scores), d)

\* round((earned / total) * 100.0, 1) if total else 0.0, in tenths of a percent:
\* earned is in thousandths and total in tenths, so the percentage is
\* earned / total and its tenths are 10 * earned / total.
compute_weighted_score(scores, d) ==
    LET total == TotalWeight(scores, d)
        earned == EarnedWeight(scores, d)
    IN  IF total # 0 THEN RoundHalfEven(10 * earned, total) ELSE 0

\* Mutant: the score is looked at before the gate.
get_recommendation_score_first(gate, final_score) ==
    IF final_score >= 850 THEN "AWARD"
    ELSE IF Len(gate.failures) >= 2 THEN "REJECT"
    ELSE "SEEK CLARIFICATION"

get_recommendation(gate, final_score) ==
    IF Len(gate.failures) >= 2 THEN "REJECT"
    ELSE IF Len(gate.failures) = 1 \/ final_score < 700 THEN "SEEK CLARIFICATION"
    ELSE IF final_score >= 850 THEN "AWARD"
    ELSE "SEEK CLARIFICATION"

\* Mutant: the cap is looked up one failure too far.
EvalCapOffByOne(gate) == ScoreCap(Len(gate.failures) + 1)

\* cap of evaluate_proposal
EvalCap(gate) == ScoreCap(Len(gate.failures))

\* Mutant: with failures the final score is the cap itself.
BuildEvaluationCapAssigned(gate, raw, scores) ==
    LET final_score == IF Len(gate.failures) > 0 THEN EvalCap(gate) ELSE raw
    IN  [mandatory_gate |-> gate,
         match_percentage |-> final_score,
         raw_score |-> raw,
         scores |-> scores,
         recommendation |-> get_recommendation(gate, final_score)]

\* The ProposalEvaluation evaluate_proposal builds.  round(x, 1) of a number
\* of tenths is that number.
BuildEvaluation(gate, raw, scores) ==
    LET final_score == Min(raw, EvalCap(gate))
    IN  [mandatory_gate |-> gate,
         match_percentage |-> final_score,
         raw_score |-> raw,
         scores |-> scores,
         recommendation |-> get_recommendation(gate, final_score)]

\* Field(ge=0.0, le=100.0) on match_percentage and raw_score
ValidEvaluation(e) ==
    /\ 0 <= e.match_percentage /\ e.match_percentage <= 1000
    /\ 0 <= e.raw_score /\ e.raw_score <= 1000

----------------------------------------------------------------------------
(* State machine of one evaluate_proposal call *)

\* Values of the locals before their assignment.
NoGate == [passed |-> FALSE, failures |-> <<>>, score_cap |-> -1]
NoScore == -1
NoCall == [args |-> <<>>, ret |-> <<>>]
NoHist == [calls |-> <<>>, order |-> <<>>, waited |-> {}]
NoBatch == [pc |-> "idle"]

InitWith(docs) ==
    /\ doc \in docs
    /\ pc = "start"
    /\ chunks = <<>>
    /\ worker = <<>>
    /\ out = <<>>
    /\ collected = {}
    /\ results = <<>>
    /\ raw_scores = <<>>
    /\ mandatory_gate = NoGate
    /\ raw_score = NoScore
    /\ evaluation = <<>>
    /\ unit = NoCall
    /\ hist = NoHist
    /\ batch = NoBatch

\* _run_llm_evaluation up to the as_completed loop: the chunks are cut and one
\* future per chunk is submitted.  ThreadPoolExecutor(max_workers=0) raises
\* ValueError, so a document without requirements fails the call.
RunLlmEvaluation ==
    /\ pc = "start"
    /\ chunks' = Chunks(doc)
    /\ IF Len(chunks') = 0
       THEN /\ pc' = "failed"
            /\ UNCHANGED <<worker, out, results, hist>>
       ELSE /\ pc' = "dispatch"
            /\ worker' = [k \in 1..Len(chunks') |-> "running"]
            /\ out' = [k \in 1..Len(chunks') |-> <<>>]
            /\ results' = [k \in 1..Len(chunks') |-> <<>>]
            /\ hist' = [calls |-> [k \in 1..Len(chunks') |-> 0], order |-> <<>>, waited |-> {}]
    /\ UNCHANGED <<unit, batch, doc, collected, raw_scores, mandatory_gate, raw_score, evaluation>>

\* The future of chunk i returns the normalized scores of the oracle's answer.
EvaluateChunk(i, answers) ==
    /\ pc \in {"dispatch", "joining"}
    /\ i \in 1..Len(chunks)
    /\ worker[i] = "running"
    /\ \E answer \in answers :
          /\ worker' = [worker EXCEPT ![i] = "ok"]
          /\ out' = [out EXCEPT ![i] = answer]
    /\ hist' = [hist EXCEPT !.calls[i] = @ + 1]
    /\ UNCHANGED <<unit, batch, doc, pc, chunks, collected, results, raw_scores,
                   mandatory_gate, raw_score, evaluation>>

\* Mutant: a chunk call that raised is made again.
ChunkFailsRetried(i) ==
    /\ pc \in {"dispatch", "joining"}
    /\ i \in 1..Len(chunks)
    /\ worker[i] = "running"
    /\ hist.calls[i] < 2
    /\ hist' = [hist EXCEPT !.calls[i] = @ + 1]
    /\ UNCHANGED <<unit, batch, doc, pc, chunks, worker, out, collected, results,
                   raw_scores, mandatory_gate, raw_score, evaluation>>

\* The future of chunk i raises: the oracle call fails, the payload does not
\* parse, or a record does not validate.
ChunkFails(i) ==
    /\ pc \in {"dispatch", "joining"}
    /\ i \in 1..Len(chunks)
    /\ worker[i] = "running"
    /\ worker' = [worker EXCEPT ![i] = "failed"]
    /\ hist' = [hist EXCEPT !.calls[i] = @ + 1]
    /\ UNCHANGED <<unit, batch, doc, pc, chunks, out, collected, results, raw_scores,
                   mandatory_gate, raw_score, evaluation>>

\* Mutant: the results are stored in the order the futures complete.
CollectInCompletionOrder(i) ==
    /\ pc = "dispatch"
    /\ i \in 1..Len(chunks)
    /\ i \notin collected
    /\ worker[i] = "ok"
    /\ collected' = collected \cup {i}
    /\ results' = [results EXCEPT ![Cardinality(collected) + 1] = out[i]]
    /\ IF collected' = 1..Len(chunks)
       THEN /\ raw_scores' = Flatten(results')
            /\ pc' = "gate"
       ELSE UNCHANGED <<raw_scores, pc>>
    /\ hist' = [hist EXCEPT !.order = Append(@, i)]
    /\ UNCHANGED <<unit, batch, doc, chunks, worker, out, mandatory_gate, raw_score, evaluation>>

\* Mutant: a future that raised counts as one that returned no scores.
CollectAbsorbingFailure(i) ==
    /\ pc = "dispatch"
    /\ i \in 1..Len(chunks)
    /\ i \notin collected
    /\ worker[i] \in {"ok", "failed"}
    /\ collected' = collected \cup {i}
    /\ results' = [results EXCEPT ![i] = out[i]]
    /\ IF collected' = 1..Len(chunks)
       THEN /\ raw_scores' = Flatten(results')
            /\ pc' = "gate"
       ELSE UNCHANGED <<raw_scores, pc>>
    /\ hist' = [hist EXCEPT !.order = Append(@, i)]
    /\ UNCHANGED <<unit, batch, doc, chunks, worker, out, mandatory_gate, raw_score, evaluation>>

\* One round of the as_completed loop on a future that returned:
\* results[futures[f]] = f.result().  After the last one the loop ends and the
\* results are flattened and returned to evaluate_proposal.
Collect(i) ==
    /\ pc = "dispatch"
    /\ i \in 1..Len(chunks)
    /\ i \notin collected
    /\ worker[i] = "ok"
    /\ collected' = collected \cup {i}
    /\ results' = [results EXCEPT ![i] = out[i]]
    /\ IF collected' = 1..Len(chunks)
       THEN /\ raw_scores' = Flatten(results')
            /\ pc' = "gate"
       ELSE UNCHANGED <<raw_scores, pc>>
    /\ hist' = [hist EXCEPT !.order = Append(@, i)]
    /\ UNCHANGED <<unit, batch, doc, chunks, worker, out, mandatory_gate, raw_score, evaluation>>

\* One round of the as_completed loop on a future that raised: f.result()
\* re-raises, and the with block's exit waits for the other futures.
CollectFailure(i) ==
    /\ pc = "dispatch"
    /\ i \in 1..Len(chunks)
    /\ i \notin collected
    /\ worker[i] = "failed"
    /\ pc' = "joining"
    /\ hist' = [hist EXCEPT !.order = Append(@, i),
                            !.waited = { k \in 1..Len(chunks) : worker[k] = "running" }]
    /\ UNCHANGED <<unit, batch, doc, chunks, worker, out, collected, results, raw_scores,
                   mandatory_gate, raw_score, evaluation>>

\* Mutant: the exception leaves while chunk calls are still running.
RaiseAtOnce ==
    /\ pc = "joining"
    /\ pc' = "failed"
    /\ UNCHANGED <<unit, hist, batch, doc, chunks, worker, out, collected, results, raw_scores,
                   mandatory_gate, raw_score, evaluation>>

\* The executor has shut down: the exception leaves evaluate_proposal.
Raise ==
    /\ pc = "joining"
    /\ \A k \in 1..Len(chunks) : worker[k] # "running"
    /\ pc' = "failed"
    /\ UNCHANGED <<unit, hist, batch, doc, chunks, worker, out, collected, results, raw_scores,
                   mandatory_gate, raw_score, evaluation>>

\* Mutant: the gate is computed while chunk results are still missing.
ComputeMandatoryGateEarly ==
    /\ pc \in {"dispatch", "gate"}
    /\ mandatory_gate' = compute_mandatory_gate(Flatten(results), doc)
    /\ pc' = "score"
    /\ UNCHANGED <<unit, hist, batch, doc, chunks, worker, out, collected, results,
                   raw_scores, raw_score, evaluation>>

ComputeMandatoryGate ==
    /\ pc = "gate"
    /\ mandatory_gate' = compute_mandatory_gate(raw_scores, doc)
    /\ pc' = "score"
    /\ UNCHANGED <<unit, hist, batch, doc, chunks, worker, out, collected, results, raw_scores,
                   raw_score, evaluation>>

ComputeWeightedScore ==
    /\ pc = "score"
    /\ raw_score' = compute_weighted_score(raw_scores, doc)
    /\ pc' = "finish"
    /\ UNCHANGED <<unit, hist, batch, doc, chunks, worker, out, collected, results, raw_scores,
                   mandatory_gate, evaluation>>

\* The cap, the final score, the recommendation and the validated
\* ProposalEvaluation.
Finish ==
    /\ pc = "finish"
    /\ LET e == BuildEvaluation(mandatory_gate, raw_score, raw_scores)
       IN  IF ValidEvaluation(e)
           THEN evaluation' = <<e>> /\ pc' = "done"
           ELSE evaluation' = <<>> /\ pc' = "failed"
    /\ UNCHANGED <<unit, hist, batch, doc, chunks, worker, out, collected, results, raw_scores,
                   mandatory_gate, raw_score>>

Pipeline ==
    \/ RunLlmEvaluation
    \/ \E i \in 1..Len(chunks) : ChunkFails(i)
    \/ \E i \in 1..Len(chunks) : Collect(i)
    \/ \E i \in 1..Len(chunks) : CollectFailure(i)
    \/ Raise
    \/ ComputeMandatoryGate
    \/ ComputeWeightedScore
    \/ Finish

\* Scoring specification: small documents, every oracle answer.
Init == InitWith(ScoringDocs)

Next ==
    \/ \E i \in 1..Len(chunks) : EvaluateChunk(i, ScoringAnswers(chunks[i]))
    \/ Pipeline

Spec == Init /\ [][Next]_vars

\* Dispatch specification: documents of up to MaxN requirements.
DispatchDocs == { BigDoc(n) : n \in 0..MaxN }

InitDispatch == InitWith(DispatchDocs)

NextDispatch ==
    \/ \E i \in 1..Len(chunks) : EvaluateChunk(i, DispatchAnswers(chunks[i]))
    \/ Pipeline

SpecDispatch == InitDispatch /\ [][NextDispatch]_vars

----------------------------------------------------------------------------
(* The oracle payload and its normalization (_evaluate_chunk, lines 122-145) *)

\* A field of a parsed record is <<>> when the key is absent and <<v>> when it
\* holds v.  Confidences are in hundredths: 1.5 is 150.  The two optional keys
\* are both present or both absent.
RawRecords ==
    { s \in [requirement_id : {<<>>, <<1>>},
             requirement_type : {<<>>, <<"mandatory">>},
             met : {<<>>, <<TRUE>>, <<FALSE>>},
             confidence : {<<>>, <<100>>, <<150>>, <<-10>>}] :
         s.requirement_type = <<>> <=> s.confidence = <<>> }

\* The JSON object of a payload: with or without the key "scores".
PayloadObjects ==
    { [has_scores |-> FALSE, scores |-> <<>>] }
    \cup { [has_scores |-> TRUE, scores |-> rs] : rs \in SeqsUpTo(RawRecords, MaxRecords) }

\* The payload text is a sequence of pieces: "OBJ" is the text of a well-formed
\* JSON object (it begins with { and ends with }), "ARR" the text of a
\* well-formed JSON array without braces, "BAD" a malformed text that begins
\* with { and ends with }, "{" and "}" lone braces, "text" prose without braces.
ObjectTexts ==
    { <<"OBJ">>, <<"text", "OBJ">>, <<"OBJ", "text">>, <<"text", "OBJ", "text">>,
      <<"{", "OBJ">>, <<"OBJ", "}">>, <<"}", "OBJ", "{">> }

OtherTexts ==
    { <<>>, <<"text">>, <<"ARR">>, <<"BAD">>, <<"text", "BAD">>, <<"{", "text">>,
      <<"text", "}">>, <<"}", "{">>, <<"{", "text", "}">> }

Payloads ==
    { [text |-> t, object |-> o] : t \in ObjectTexts, o \in PayloadObjects }
    \cup { [text |-> t, object |-> [has_scores |-> FALSE, scores |-> <<>>]] : t \in OtherTexts }

\* json.loads(text): the parsed value's kind, or "JSONDecodeError".
JsonLoads(text) ==
    IF text = <<"OBJ">> THEN "object"
    ELSE IF text = <<"ARR">> THEN "array"
    ELSE "JSONDecodeError"

\* content.find("{") and content.rfind("}"), 0 for -1
FindOpen(text) ==
    LET hits == { k \in 1..Len(text) : text[k] \in {"{", "OBJ", "BAD"} }
    IN  IF hits = {} THEN 0 ELSE CHOOSE k \in hits : \A j \in hits : k <= j

RFindClose(text) ==
    LET hits == { k \in 1..Len(text) : text[k] \in {"}", "OBJ", "BAD"} }
    IN  IF hits = {} THEN 0 ELSE CHOOSE k \in hits : \A j \in hits : j <= k

\* Lines 123-129: the kind of data, or the exception raised.
ParseContent(text) ==
    IF JsonLoads(text) # "JSONDecodeError" THEN JsonLoads(text)
    ELSE IF FindOpen(text) = 0 \/ RFindClose(text) = 0 THEN "ValueError"
    ELSE JsonLoads(SubSeq(text, FindOpen(text), RFindClose(text)))

\* Mutant: the upper end of the range is not validated.
ConfidenceValidNoUpper(c) == 0 <= c

\* RequirementScore.confidence: Field(ge=0.0, le=1.0)
ConfidenceValid(c) == 0 <= c /\ c <= 100

\* Mutant: an absent met is read as False.
NormalizeRecordMetDefault(s) ==
    IF s.requirement_id = <<>> THEN [error |-> "KeyError", score |-> <<>>]
    ELSE LET c == IF s.confidence = <<>> THEN 50 ELSE s.confidence[1]
         IN  IF ~ConfidenceValid(c) THEN [error |-> "ValidationError", score |-> <<>>]
             ELSE [error |-> "",
                   score |-> <<[requirement_id |-> s.requirement_id[1],
                                requirement_type |-> IF s.requirement_type = <<>>
                                                     THEN "functional"
                                                     ELSE s.requirement_type[1],
                                met |-> IF s.met = <<>> THEN FALSE ELSE s.met[1],
                                confidence |-> c]>>]

\* Lines 132-143: the RequirementScore of one parsed record, or the exception
\* raised: s["requirement_id"] and s["met"] raise KeyError on an absent key,
\* the model's validation raises ValidationError.
NormalizeRecord(s) ==
    IF s.requirement_id = <<>> THEN [error |-> "KeyError", score |-> <<>>]
    ELSE IF s.met = <<>> THEN [error |-> "KeyError", score |-> <<>>]
    ELSE LET c == IF s.confidence = <<>> THEN 50 ELSE s.confidence[1]
         IN  IF ~ConfidenceValid(c) THEN [error |-> "ValidationError", score |-> <<>>]
             ELSE [error |-> "",
                   score |-> <<[requirement_id |-> s.requirement_id[1],
                                requirement_type |-> IF s.requirement_type = <<>>
                                                     THEN "functional"
                                                     ELSE s.requirement_type[1],
                                met |-> s.met[1],
                                confidence |-> c]>>]

\* Lines 131-145: the list comprehension stops at the first record that raises.
RECURSIVE NormalizeRecords(_)
NormalizeRecords(rs) ==
    IF rs = <<>> THEN [error |-> "", scores |-> <<>>]
    ELSE LET h == NormalizeRecord(Head(rs))
         IN  IF h.error # "" THEN [error |-> h.error, scores |-> <<>>]
             ELSE LET t == NormalizeRecords(Tail(rs))
                  IN  IF t.error # "" THEN t
                      ELSE [error |-> "", scores |-> h.score \o t.scores]

\* Lines 122-145: what _evaluate_chunk returns or raises for a payload.
\* A parsed array has no get: AttributeError.  data.get("scores", []) is the
\* empty list when the object has no key "scores".
NormalizePayload(p) ==
    LET kind == ParseContent(p.text)
    IN  IF kind = "object"
        THEN NormalizeRecords(IF p.object.has_scores THEN p.object.scores ELSE <<>>)
        ELSE IF kind = "array" THEN [error |-> "AttributeError", scores |-> <<>>]
        ELSE [error |-> kind, scores |-> <<>>]

\* Normalization specification: every payload is normalized once.
InitNormalize ==
    /\ doc = <<>>
    /\ pc = "call"
    /\ chunks = <<>>
    /\ worker = <<>>
    /\ out = <<>>
    /\ collected = {}
    /\ results = <<>>
    /\ raw_scores = <<>>
    /\ mandatory_gate = NoGate
    /\ raw_score = NoScore
    /\ evaluation = <<>>
    /\ hist = NoHist
    /\ batch = NoBatch
    /\ \E p \in Payloads : unit = [args |-> <<p>>, ret |-> <<>>]

Normalize ==
    /\ pc = "call"
    /\ unit' = [unit EXCEPT !.ret = <<NormalizePayload(unit.args[1])>>]
    /\ pc' = "returned"
    /\ UNCHANGED <<hist, batch, doc, chunks, worker, out, collected, results, raw_scores,
                   mandatory_gate, raw_score, evaluation>>

NextNormalize == Normalize

SpecNormalize == InitNormalize /\ [][NextNormalize]_vars

\* Recommendation specification: _get_recommendation called directly on every
\* gate of up to MaxFailures failures and every final score of 0.0 .. 100.0.
GateOf(k) == [passed |-> k = 0, failures |-> [j \in 1..k |-> j], score_cap |-> ScoreCap(k)]

InitRecommend ==
    /\ doc = <<>>
    /\ pc = "call"
    /\ chunks = <<>>
    /\ worker = <<>>
    /\ out = <<>>
    /\ collected = {}
    /\ results = <<>>
    /\ raw_scores = <<>>
    /\ mandatory_gate = NoGate
    /\ raw_score = NoScore
    /\ evaluation = <<>>
    /\ hist = NoHist
    /\ batch = NoBatch
    /\ \E k \in 0..MaxFailures, f \in 0..1000 :
          unit = [args |-> <<GateOf(k), f>>, ret |-> <<>>]

GetRecommendation ==
    /\ pc = "call"
    /\ unit' = [unit EXCEPT !.ret = <<get_recommendation(unit.args[1], unit.args[2])>>]
    /\ pc' = "returned"
    /\ UNCHANGED <<hist, batch, doc, chunks, worker, out, collected, results, raw_scores,
                   mandatory_gate, raw_score, evaluation>>

NextRecommend == GetRecommendation

SpecRecommend == InitRecommend /\ [][NextRecommend]_vars

\* Weights specification: _compute_weighted_score called directly on a
\* document of one requirement (id 1) whose type and priority are any string
\* (a Requirement built without validation: the Literal fields of a validated
\* one hold only the tables' keys), and on scores of ids 1 and 2.
WeightTypes == DOMAIN TYPE_WEIGHTS \cup {"compliance"}

WeightPriorities == DOMAIN PRIORITY_WEIGHTS \cup {"Critical"}

WeightDocs ==
    { <<[id |-> 1, type |-> t, priority |-> p]>> : t \in WeightTypes, p \in WeightPriorities }

WeightScores ==
    SeqsUpTo([requirement_id : {1, 2}, requirement_type : {"functional"},
              met : BOOLEAN, confidence : {100}], MaxScores)

InitWeights ==
    /\ doc = <<>>
    /\ pc = "call"
    /\ chunks = <<>>
    /\ worker = <<>>
    /\ out = <<>>
    /\ collected = {}
    /\ results = <<>>
    /\ raw_scores = <<>>
    /\ mandatory_gate = NoGate
    /\ raw_score = NoScore
    /\ evaluation = <<>>
    /\ hist = NoHist
    /\ batch = NoBatch
    /\ \E scores \in WeightScores, d \in WeightDocs :
          unit = [args |-> <<scores, d>>, ret |-> <<>>]

WeightedScoreCall ==
    /\ pc = "call"
    /\ unit' = [unit EXCEPT !.ret = <<compute_weighted_score(unit.args[1], unit.args[2])>>]
    /\ pc' = "returned"
    /\ UNCHANGED <<hist, batch, doc, chunks, worker, out, collected, results, raw_scores,
                   mandatory_gate, raw_score, evaluation>>

NextWeights == WeightedScoreCall

SpecWeights == InitWeights /\ [][NextWeights]_vars

----------------------------------------------------------------------------
(* Properties *)

GateComputed == pc \in {"score", "finish", "done"}
ScoreComputed == pc \in {"finish", "done"}
Returned == evaluation # <<>>

Resolves(id) == \E k \in 1..Len(doc) : doc[k].id = id
DeclaredType(id) == doc[CHOOSE k \in 1..Len(doc) : doc[k].id = id].type

\* f[1] + ... + f[n]
RECURSIVE SumIdx(_, _)
SumIdx(f, n) == IF n = 0 THEN 0 ELSE f[n] + SumIdx(f, n - 1)

\* x is an integer nearest to num / den (den > 0)
IsNearest(x, num, den) ==
    /\ 2 * (x * den - num) <= den
    /\ 2 * (num - x * den) <= den

\* C1: every returned Evaluation has 0 <= match_percentage <= raw_score <= 100.
C1_ScoreBounds ==
    Returned =>
        /\ 0 <= evaluation[1].match_percentage
        /\ evaluation[1].match_percentage <= evaluation[1].raw_score
        /\ evaluation[1].raw_score <= 1000

\* An Evaluation whose cap lowered a positive score.
C1_Witness ==
    /\ Returned
    /\ 0 < evaluation[1].match_percentage
    /\ evaluation[1].match_percentage < evaluation[1].raw_score

\* C2: in every returned Evaluation match_percentage is the smaller of raw_score
\* and the returned gate's score_cap; with no failure the cap is 100.0 and
\* match_percentage is raw_score.
C2_MatchIsMinOfRawAndCap ==
    Returned =>
        LET e == evaluation[1]
        IN  /\ e.match_percentage <= e.raw_score
            /\ e.match_percentage <= e.mandatory_gate.score_cap
            /\ e.match_percentage \in {e.raw_score, e.mandatory_gate.score_cap}
            /\ Len(e.mandatory_gate.failures) = 0 =>
                  /\ e.mandatory_gate.score_cap = 1000
                  /\ e.match_percentage = e.raw_score

\* A returned Evaluation of one failure whose cap of 75.0 lowered the score.
C2_Witness ==
    /\ Returned
    /\ Len(evaluation[1].mandatory_gate.failures) = 1
    /\ evaluation[1].match_percentage = 750
    /\ evaluation[1].raw_score > 750

\* C3: the gate's score_cap depends on the number k of failures only: 100.0
\* for 0, 75.0 for 1, 60.0 for 2 and 40.0 for every k >= 3.
C3_ScoreCapTable ==
    GateComputed =>
        LET k == Len(mandatory_gate.failures)
        IN  /\ k = 0 => mandatory_gate.score_cap = 1000
            /\ k = 1 => mandatory_gate.score_cap = 750
            /\ k = 2 => mandatory_gate.score_cap = 600
            /\ k >= 3 => mandatory_gate.score_cap = 400

\* A gate of three or more failures.
C3_Witness ==
    /\ GateComputed
    /\ Len(mandatory_gate.failures) >= 3
    /\ mandatory_gate.score_cap = 400

\* C4: the recommendation is the first match of: 2 or more failures REJECT;
\* 1 failure or a final score below 70 SEEK CLARIFICATION; a final score of 85
\* or more AWARD; otherwise SEEK CLARIFICATION.  So 2 failures give REJECT at
\* any score, and AWARD needs no failure and a final score of 85 or more.
C4_RecommendationPrecedence ==
    unit.ret # <<>> =>
        LET k == Len(unit.args[1].failures)
            f == unit.args[2]
            r == unit.ret[1]
        IN  /\ k >= 2 => r = "REJECT"
            /\ (k < 2 /\ (k = 1 \/ f < 700)) => r = "SEEK CLARIFICATION"
            /\ (k = 0 /\ f >= 850) => r = "AWARD"
            /\ (k = 0 /\ f >= 700 /\ f < 850) => r = "SEEK CLARIFICATION"
            /\ r = "AWARD" => (k = 0 /\ f >= 850)
            /\ r \in {"AWARD", "SEEK CLARIFICATION", "REJECT"}

\* A final score of 95.0 with two failures is rejected.
C4_Witness ==
    /\ unit.ret = <<"REJECT">>
    /\ Len(unit.args[1].failures) = 2
    /\ unit.args[2] = 950

\* The mandatory failures as C5 states them: unmet, and mandatory by the
\* document's type when the id resolves, by the carried type otherwise.
C5_IsFailure(s) ==
    /\ ~s.met
    /\ IF Resolves(s.requirement_id)
       THEN DeclaredType(s.requirement_id) = "mandatory"
       ELSE s.requirement_type = "mandatory"

\* C5: the gate's failures are the ids, in score order, of the unmet scores
\* whose resolved type is mandatory (the document's type when the id resolves),
\* and passed is true iff there is none.
C5_GateFailures ==
    GateComputed =>
        LET f == SelectSeq(raw_scores, C5_IsFailure)
        IN  /\ mandatory_gate.failures = [k \in 1..Len(f) |-> f[k].requirement_id]
            /\ mandatory_gate.passed = (Len(mandatory_gate.failures) = 0)

\* The carried type is ignored both ways: one unmet score is a failure though
\* it carries "functional", another is none though it carries "mandatory".
C5_Witness ==
    /\ GateComputed
    /\ \E j, k \in 1..Len(raw_scores) :
          /\ ~raw_scores[j].met /\ ~raw_scores[k].met
          /\ Resolves(raw_scores[j].requirement_id)
          /\ Resolves(raw_scores[k].requirement_id)
          /\ raw_scores[j].requirement_type = "functional"
          /\ raw_scores[k].requirement_type = "mandatory"
          /\ mandatory_gate.failures = <<raw_scores[j].requirement_id>>

\* The scorer's weight of the k-th score, and what it earns when met.
WeightAt(k) == Weight(raw_scores[k], doc)
MetEarnedAt(k) ==
    IF raw_scores[k].met THEN WeightAt(k) * raw_scores[k].confidence ELSE 0

\* C6: the raw score is round(100 * earned / total, 1), total the sum of the
\* weights of all scores and earned the sum of weight * confidence of the met
\* scores only, and 0.0 when total is zero; with one unmet mandatory score of
\* weight Wm and all others met at confidence 1.0 it is round(100*(W-Wm)/W, 1).
C6_RawScoreFormula ==
    ScoreComputed =>
        LET n == Len(raw_scores)
            total == SumIdx([k \in 1..n |-> WeightAt(k)], n)
            earned == SumIdx([k \in 1..n |-> MetEarnedAt(k)], n)
        IN  /\ total = 0 => raw_score = 0
            /\ total > 0 => IsNearest(raw_score, 10 * earned, total)
            /\ \A j \in 1..n :
                  ( /\ C5_IsFailure(raw_scores[j])
                    /\ \A k \in 1..n \ {j} :
                          raw_scores[k].met /\ raw_scores[k].confidence = 100 )
                  => IsNearest(raw_score, 1000 * (total - WeightAt(j)), total)

\* One unmet mandatory score with a stated confidence among scores met at 1.0.
C6_Witness ==
    /\ ScoreComputed
    /\ Len(raw_scores) = 3
    /\ \E j \in 1..3 :
          /\ C5_IsFailure(raw_scores[j])
          /\ raw_scores[j].confidence > 0
          /\ \A k \in 1..3 \ {j} : raw_scores[k].met /\ raw_scores[k].confidence = 100
    /\ raw_score > 0
    /\ raw_score < 1000

\* The weight C7 states: the document's type and priority when the id
\* resolves, the score's carried type and the default priority otherwise.
C7_ClaimedWeight(s) ==
    IF Resolves(s.requirement_id)
    THEN Weight(s, doc)
    ELSE TypeWeight(s.requirement_type) * PriorityWeight("Medium")

\* C7: the weighted scorer weights a score whose id does not resolve by the
\* score's carried requirement_type (the type the mandatory gate resolves for
\* it) and the default priority, so the raw score is the one of those weights.
C7_ScorerFallsBackToCarriedType ==
    ScoreComputed =>
        LET n == Len(raw_scores)
            total == SumIdx([k \in 1..n |-> C7_ClaimedWeight(raw_scores[k])], n)
            earned == SumIdx([k \in 1..n |->
                         IF raw_scores[k].met
                         THEN C7_ClaimedWeight(raw_scores[k]) * raw_scores[k].confidence
                         ELSE 0], n)
        IN  /\ total = 0 => raw_score = 0
            /\ total > 0 => IsNearest(raw_score, 10 * earned, total)

\* The scores whose id resolves in the document.
IsResolved(s) == Resolves(s.requirement_id)
IsOrphan(s) == ~Resolves(s.requirement_id)

\* C8 as stated: an orphan score changes neither total nor earned, so the raw
\* score is the one of the resolved scores alone.
C8_OrphanExcluded ==
    ScoreComputed =>
        LET rs == SelectSeq(raw_scores, IsResolved)
            n == Len(rs)
            total == SumIdx([k \in 1..n |-> Weight(rs[k], doc)], n)
            earned == SumIdx([k \in 1..n |->
                         IF rs[k].met THEN Weight(rs[k], doc) * rs[k].confidence ELSE 0], n)
        IN  /\ total = 0 => raw_score = 0
            /\ total > 0 => IsNearest(raw_score, 10 * earned, total)

\* C8, amended: an orphan score is weighted like any other, with a positive
\* fallback weight: total is the resolved scores' total plus the orphans'
\* weights, earned the resolved scores' earned plus weight * confidence of the
\* met orphans.
C8_OrphanWeighted ==
    ScoreComputed =>
        LET rs == SelectSeq(raw_scores, IsResolved)
            os == SelectSeq(raw_scores, IsOrphan)
            n == Len(rs)
            m == Len(os)
            total == SumIdx([k \in 1..n |-> Weight(rs[k], doc)], n)
                     + SumIdx([k \in 1..m |-> Weight(os[k], doc)], m)
            earned == SumIdx([k \in 1..n |->
                         IF rs[k].met THEN Weight(rs[k], doc) * rs[k].confidence ELSE 0], n)
                      + SumIdx([k \in 1..m |->
                         IF os[k].met THEN Weight(os[k], doc) * os[k].confidence ELSE 0], m)
        IN  /\ \A k \in 1..m : Weight(os[k], doc) > 0
            /\ total = 0 => raw_score = 0
            /\ total > 0 => IsNearest(raw_score, 10 * earned, total)

\* An unmet orphan score lowers the raw score of scores that are all met at 1.0.
C8_Witness ==
    /\ ScoreComputed
    /\ \E j \in 1..Len(raw_scores) :
          /\ IsOrphan(raw_scores[j])
          /\ ~raw_scores[j].met
          /\ \A k \in 1..Len(raw_scores) \ {j} :
                /\ IsResolved(raw_scores[k])
                /\ raw_scores[k].met
                /\ raw_scores[k].confidence = 100
    /\ Len(raw_scores) >= 2
    /\ raw_score < 1000

\* C9: the chunks are contiguous pieces of the requirements of at most
\* CHUNK_SIZE (15) each, all but the last of exactly that size, none empty;
\* every requirement lies in exactly one chunk and the chunks in index order
\* concatenate to the requirements; 37 requirements give sizes 15, 15, 7.
C9_ChunkPartition ==
    pc # "start" =>
        LET n == Len(doc)
            c == Len(chunks)
        IN  /\ \A k \in 1..c : Len(chunks[k]) >= 1 /\ Len(chunks[k]) <= CHUNK_SIZE
            /\ \A k \in 1..(c - 1) : Len(chunks[k]) = CHUNK_SIZE
            /\ SumIdx([k \in 1..c |-> Len(chunks[k])], c) = n
            /\ \A j \in 1..n :
                  /\ ((j - 1) \div CHUNK_SIZE) + 1 <= c
                  /\ ((j - 1) % CHUNK_SIZE) + 1 <= Len(chunks[((j - 1) \div CHUNK_SIZE) + 1])
                  /\ chunks[((j - 1) \div CHUNK_SIZE) + 1][((j - 1) % CHUNK_SIZE) + 1] = doc[j]
            /\ n = 37 => [k \in 1..c |-> Len(chunks[k])] = <<15, 15, 7>>

\* 37 requirements cut into chunks of 15, 15 and 7.
C9_Witness ==
    /\ pc = "dispatch"
    /\ Len(doc) = 37
    /\ Len(chunks) = 3
    /\ Len(chunks[1]) = 15 /\ Len(chunks[2]) = 15 /\ Len(chunks[3]) = 7

\* The dispatcher returned: no chunk call failed.
Dispatched == pc \in {"gate", "score", "finish", "done"}

\* C10 as stated: when no chunk call fails, the flattened scores are as many
\* as the requirements.
C10_FlattenedLengthIsN == Dispatched => Len(raw_scores) = Len(doc)

\* C10, amended: when no chunk call fails, the flattened scores are as many as
\* the score records of all chunk answers together, which is the number of
\* requirements when every answer carries as many records as its chunk has
\* requirements.
C10_FlattenedLengthIsAnswered ==
    Dispatched =>
        LET c == Len(chunks)
        IN  /\ Len(raw_scores) = SumIdx([k \in 1..c |-> Len(out[k])], c)
            /\ (\A k \in 1..c : Len(out[k]) = Len(chunks[k]))
                  => Len(raw_scores) = Len(doc)

\* 37 requirements answered chunk by chunk with one score each: 37 scores.
C10_Witness ==
    /\ Dispatched
    /\ Len(doc) = 37
    /\ \A k \in 1..Len(chunks) : Len(out[k]) = Len(chunks[k])
    /\ Len(raw_scores) = 37

\* The number of scores the chunks before chunk k returned.
OffsetOf(k) == SumIdx([m \in 1..(k - 1) |-> Len(out[m])], k - 1)

\* C11: whatever the order in which the chunk calls complete, the dispatcher's
\* output is the chunks' results one after the other in chunk index order.
C11_OutputInChunkOrder ==
    Dispatched =>
        LET c == Len(chunks)
        IN  /\ Len(raw_scores) = OffsetOf(c + 1)
            /\ \A k \in 1..c : \A j \in 1..Len(out[k]) :
                  raw_scores[OffsetOf(k) + j] = out[k][j]

\* Three chunks completed last first, every one with scores.
C11_Witness ==
    /\ Dispatched
    /\ Len(chunks) = 3
    /\ hist.order = <<3, 2, 1>>
    /\ \A k \in 1..3 : Len(out[k]) = Len(chunks[k])

\* C12: when a chunk call of the dispatch fails, evaluate_proposal fails: no
\* gate, no score and no Evaluation is computed from the other chunks' scores.
C12_ChunkFailureFailsEvaluation ==
    (\E k \in 1..Len(chunks) : worker[k] = "failed") =>
        /\ ~Dispatched
        /\ raw_scores = <<>>
        /\ mandatory_gate = NoGate
        /\ raw_score = NoScore
        /\ evaluation = <<>>

\* The call failed on one chunk although another chunk's scores were stored.
C12_Witness ==
    /\ pc = "failed"
    /\ evaluation = <<>>
    /\ \E j, k \in 1..Len(chunks) :
          /\ worker[k] = "failed"
          /\ worker[j] = "ok" /\ j \in collected /\ Len(results[j]) > 0

\* The phases of one evaluate_proposal call in their order.
PhaseRank(p) ==
    CASE p = "start"    -> 0
      [] p = "dispatch" -> 1
      [] p = "joining"  -> 2
      [] p = "gate"     -> 3
      [] p = "score"    -> 4
      [] p = "finish"   -> 5
      [] p = "done"     -> 6
      [] p = "failed"   -> 7

\* C18: an evaluation moves through its phases forward only.  Gate and score
\* are computed only once every chunk was dispatched, normalized and collected;
\* the Evaluation with its recommendation exists only once both the gate and
\* the score exist.
C18_PhasesForward ==
    /\ [][pc' # pc => PhaseRank(pc') > PhaseRank(pc)]_vars
    /\ [](pc \in {"gate", "score", "finish", "done"} =>
            /\ collected = 1..Len(chunks)
            /\ \A k \in 1..Len(chunks) : worker[k] = "ok" /\ results[k] = out[k])
    /\ [](mandatory_gate # NoGate => pc \in {"score", "finish", "done"})
    /\ [](raw_score # NoScore => pc \in {"finish", "done"})
    /\ [](Returned => (pc = "done" /\ mandatory_gate # NoGate /\ raw_score # NoScore))

\* An evaluation of three chunks that reached DONE.
C18_Witness ==
    /\ pc = "done"
    /\ Returned
    /\ Len(chunks) = 3
    /\ Len(hist.order) = 3

\* C19: the oracle is called once per chunk: never before its future runs,
\* never again after it returned or raised.
C19_OneCallPerChunk ==
    /\ Len(hist.calls) = Len(chunks)
    /\ \A k \in 1..Len(chunks) :
          hist.calls[k] = IF worker[k] = "running" THEN 0 ELSE 1

\* A dispatch of three chunks that failed with one call made for every chunk.
C19_Witness ==
    /\ pc = "failed"
    /\ Len(chunks) = 3
    /\ \E k \in 1..3 : worker[k] = "failed"
    /\ \A k \in 1..3 : hist.calls[k] = 1

----------------------------------------------------------------------------
(* ParseAgent.parse_file (parse_agent.py, lines 16-28) *)

\* str(e) of a load_data failure, as a sequence of phrases; the empty sequence
\* is no failure.
Messages ==
    { <<"TCPTransport closed">>, <<"Connection lost: ", "TCPTransport closed">>,
      <<"the ", "handler is closed">>, <<"timeout">> }

\* The documents a successful load_data returns, by their text.
DocLists == { <<>>, <<"A">>, <<"A", "B">> }

\* What one load_data call does: raises error, or returns docs.
LoadOutcomes ==
    { [error |-> m, docs |-> <<>>] : m \in Messages }
    \cup { [error |-> <<>>, docs |-> d] : d \in DocLists }

\* phrase in msg
Contains(msg, phrase) == \E k \in 1..Len(msg) : msg[k] = phrase

\* Mutant: every failure is retried.
IsTransportErrorAny(msg) == TRUE

\* Line 22
IsTransportError(msg) ==
    Contains(msg, "TCPTransport closed") \/ Contains(msg, "handler is closed")

\* Line 28: "\n\n".join of the documents' texts
RECURSIVE JoinTexts(_)
JoinTexts(docs) ==
    IF docs = <<>> THEN <<>>
    ELSE IF Len(docs) = 1 THEN docs
    ELSE <<Head(docs), "\n\n">> \o JoinTexts(Tail(docs))

\* Extraction specification: parse_file is called once; the k-th load_data
\* call of the run has the outcome loads[k].  used lists the parser of each
\* attempt, parsers counts the parsers built.
InitParse ==
    /\ doc = <<>>
    /\ pc = "call"
    /\ chunks = <<>>
    /\ worker = <<>>
    /\ out = <<>>
    /\ collected = {}
    /\ results = <<>>
    /\ raw_scores = <<>>
    /\ mandatory_gate = NoGate
    /\ raw_score = NoScore
    /\ evaluation = <<>>
    /\ hist = NoHist
    /\ batch = NoBatch
    /\ \E loads \in [1..MaxLoads -> LoadOutcomes] :
          unit = [args |-> <<loads>>, ret |-> <<>>, parsers |-> 0, used |-> <<>>,
                  error |-> <<>>, docs |-> <<>>]

\* Lines 17-19: a parser is built and load_data is called.
LoadData ==
    /\ pc = "call"
    /\ LET o == unit.args[1][1]
       IN  /\ unit' = [unit EXCEPT !.parsers = 1, !.used = <<1>>,
                                   !.error = o.error, !.docs = o.docs]
           /\ pc' = IF o.error = <<>> THEN "join" ELSE "except"
    /\ UNCHANGED <<hist, batch, doc, chunks, worker, out, collected, results, raw_scores,
                   mandatory_gate, raw_score, evaluation>>

\* Lines 20-27: the handler retries with a new parser on a transport error and
\* re-raises any other; an exception of the retry leaves the handler.
HandleLoadError ==
    /\ pc = "except"
    /\ IF IsTransportError(unit.error)
       THEN LET o == unit.args[1][Len(unit.used) + 1]
            IN  /\ unit' = [unit EXCEPT !.parsers = @ + 1,
                                        !.used = Append(@, unit.parsers + 1),
                                        !.error = o.error, !.docs = o.docs]
                /\ pc' = IF o.error = <<>> THEN "join" ELSE "raised"
       ELSE /\ unit' = unit
            /\ pc' = "raised"
    /\ UNCHANGED <<hist, batch, doc, chunks, worker, out, collected, results, raw_scores,
                   mandatory_gate, raw_score, evaluation>>

\* Line 28
JoinDocs ==
    /\ pc = "join"
    /\ unit' = [unit EXCEPT !.ret = <<JoinTexts(unit.docs)>>]
    /\ pc' = "returned"
    /\ UNCHANGED <<hist, batch, doc, chunks, worker, out, collected, results, raw_scores,
                   mandatory_gate, raw_score, evaluation>>

NextParse == LoadData \/ HandleLoadError \/ JoinDocs

SpecParse == InitParse /\ [][NextParse]_vars

----------------------------------------------------------------------------
(* The Evaluate Proposals page's batch run (app.py, lines 916-952) *)

\* ThreadPoolExecutor(max_workers=min(total, 4))
MAX_WORKERS == 4

\* What a slot of results or a future holds: None, the ProposalEvaluation of
\* proposal file "of", or the exception "error" raised while processing it.
None == [kind |-> "None", of |-> 0, error |-> ""]

ProposalResult(i) == [kind |-> "ProposalEvaluation", of |-> i, error |-> ""]

ProposalException(i, e) == [kind |-> "Exception", of |-> i, error |-> e]

\* The step of _process_one_proposal that raises.
ProposalErrors == {"parse_file", "evaluate_proposal"}

\* Batch specification: total files are submitted in file order; future[i] is
\* "queued", "running" or "finished" with outcome[i]; order is the order in
\* which as_completed yielded the futures.
InitBatch ==
    /\ doc = <<>>
    /\ pc = "as_completed"
    /\ chunks = <<>>
    /\ worker = <<>>
    /\ out = <<>>
    /\ collected = {}
    /\ results = <<>>
    /\ raw_scores = <<>>
    /\ mandatory_gate = NoGate
    /\ raw_score = NoScore
    /\ evaluation = <<>>
    /\ unit = NoCall
    /\ hist = NoHist
    /\ \E total \in 1..MaxProposals :
          batch = [total |-> total,
                   future |-> [i \in 1..total |-> "queued"],
                   outcome |-> [i \in 1..total |-> None],
                   results |-> [i \in 1..total |-> None],
                   order |-> <<>>,
                   evaluations |-> <<>>,
                   failed |-> <<>>]

\* Mutant: every submitted call gets a thread of its own.
StartProposalUncapped(i) ==
    /\ batch.future[i] = "queued"
    /\ \A j \in 1..(i - 1) : batch.future[j] # "queued"
    /\ batch' = [batch EXCEPT !.future[i] = "running"]
    /\ UNCHANGED <<unit, hist, pc, doc, chunks, worker, out, collected, results, raw_scores,
                   mandatory_gate, raw_score, evaluation>>

\* Mutant: a pool thread runs one call and takes no other.
StartProposalOnce(i) ==
    /\ batch.future[i] = "queued"
    /\ \A j \in 1..(i - 1) : batch.future[j] # "queued"
    /\ Cardinality({ j \in 1..batch.total : batch.future[j] # "queued" })
          < Min(batch.total, MAX_WORKERS)
    /\ batch' = [batch EXCEPT !.future[i] = "running"]
    /\ UNCHANGED <<unit, hist, pc, doc, chunks, worker, out, collected, results, raw_scores,
                   mandatory_gate, raw_score, evaluation>>

\* A pool thread takes the oldest queued call of _process_one_proposal.
StartProposal(i) ==
    /\ batch.future[i] = "queued"
    /\ \A j \in 1..(i - 1) : batch.future[j] # "queued"
    /\ Cardinality({ j \in 1..batch.total : batch.future[j] = "running" })
          < Min(batch.total, MAX_WORKERS)
    /\ batch' = [batch EXCEPT !.future[i] = "running"]
    /\ UNCHANGED <<unit, hist, pc, doc, chunks, worker, out, collected, results, raw_scores,
                   mandatory_gate, raw_score, evaluation>>

\* _process_one_proposal returns the evaluation (app.py, lines 18-32).
ProposalReturns(i) ==
    /\ batch.future[i] = "running"
    /\ batch' = [batch EXCEPT !.future[i] = "finished", !.outcome[i] = ProposalResult(i)]
    /\ UNCHANGED <<unit, hist, pc, doc, chunks, worker, out, collected, results, raw_scores,
                   mandatory_gate, raw_score, evaluation>>

\* parse_file or evaluate_proposal raises in _process_one_proposal.
ProposalRaises(i) ==
    /\ batch.future[i] = "running"
    /\ \E e \in ProposalErrors :
          batch' = [batch EXCEPT !.future[i] = "finished",
                                 !.outcome[i] = ProposalException(i, e)]
    /\ UNCHANGED <<unit, hist, pc, doc, chunks, worker, out, collected, results, raw_scores,
                   mandatory_gate, raw_score, evaluation>>

\* Mutant: the exception of future.result() is not caught and ends the loop.
BatchCollectRaising(i) ==
    /\ pc = "as_completed"
    /\ batch.future[i] = "finished"
    /\ \A k \in 1..Len(batch.order) : batch.order[k] # i
    /\ batch' = [batch EXCEPT !.results[i] = IF batch.outcome[i].kind = "Exception"
                                             THEN @ ELSE batch.outcome[i],
                              !.order = Append(@, i)]
    /\ pc' = IF batch.outcome[i].kind = "Exception" \/ Len(batch.order) + 1 = batch.total
             THEN "partition" ELSE pc
    /\ UNCHANGED <<unit, hist, doc, chunks, worker, out, collected, results, raw_scores,
                   mandatory_gate, raw_score, evaluation>>

\* Lines 929-936: as_completed yields a finished future; its result or its
\* exception is stored at the future's index.  The loop and the with block end
\* after the last future.
BatchCollect(i) ==
    /\ pc = "as_completed"
    /\ batch.future[i] = "finished"
    /\ \A k \in 1..Len(batch.order) : batch.order[k] # i
    /\ batch' = [batch EXCEPT !.results[i] = batch.outcome[i], !.order = Append(@, i)]
    /\ pc' = IF Len(batch.order) + 1 = batch.total THEN "partition" ELSE pc
    /\ UNCHANGED <<unit, hist, doc, chunks, worker, out, collected, results, raw_scores,
                   mandatory_gate, raw_score, evaluation>>

\* The evaluations among rs[k] for k in idx, in the order of idx.
RECURSIVE EvaluationsOf(_, _)
EvaluationsOf(rs, idx) ==
    IF idx = <<>> THEN <<>>
    ELSE (IF rs[Head(idx)].kind = "Exception" THEN <<>> ELSE <<rs[Head(idx)]>>)
         \o EvaluationsOf(rs, Tail(idx))

\* The (file name, exception) pairs among rs[k] for k in idx, in the order of idx.
RECURSIVE FailedOf(_, _)
FailedOf(rs, idx) ==
    IF idx = <<>> THEN <<>>
    ELSE (IF rs[Head(idx)].kind = "Exception"
          THEN <<[name |-> Head(idx), error |-> rs[Head(idx)]]>> ELSE <<>>)
         \o FailedOf(rs, Tail(idx))

\* Mutant: the lists are built in the order the futures completed.
BatchPartitionInCompletionOrder ==
    /\ pc = "partition"
    /\ batch' = [batch EXCEPT !.evaluations = EvaluationsOf(batch.results, batch.order),
                              !.failed = FailedOf(batch.results, batch.order)]
    /\ pc' = "done"
    /\ UNCHANGED <<unit, hist, doc, chunks, worker, out, collected, results, raw_scores,
                   mandatory_gate, raw_score, evaluation>>

\* Lines 940-952: results is split, by index, into evaluations and failed.
BatchPartition ==
    /\ pc = "partition"
    /\ LET idx == [k \in 1..batch.total |-> k]
       IN  batch' = [batch EXCEPT !.evaluations = EvaluationsOf(batch.results, idx),
                                  !.failed = FailedOf(batch.results, idx)]
    /\ pc' = "done"
    /\ UNCHANGED <<unit, hist, doc, chunks, worker, out, collected, results, raw_scores,
                   mandatory_gate, raw_score, evaluation>>

NextBatch ==
    \/ \E i \in 1..batch.total : StartProposal(i)
    \/ \E i \in 1..batch.total : ProposalReturns(i)
    \/ \E i \in 1..batch.total : ProposalRaises(i)
    \/ \E i \in 1..batch.total : BatchCollect(i)
    \/ BatchPartition

SpecBatch == InitBatch /\ [][NextBatch]_vars

----------------------------------------------------------------------------
(* Runs under fair scheduling: the dispatch of one evaluation, or one batch *)

\* Documents of one or two chunks, and the empty document.
FairDocs == { BigDoc(n) : n \in 0..MaxFairN }

InitRun == InitWith(FairDocs) \/ InitBatch

NextRun ==
    \/ NextDispatch
    \/ batch # NoBatch /\ \E i \in 1..batch.total : StartProposal(i)
    \/ batch # NoBatch /\ \E i \in 1..batch.total : ProposalReturns(i)
    \/ batch # NoBatch /\ \E i \in 1..batch.total : ProposalRaises(i)
    \/ batch # NoBatch /\ \E i \in 1..batch.total : BatchCollect(i)
    \/ batch # NoBatch /\ BatchPartition

\* A call to the oracle or to the extraction service that is under way
\* returns or raises.
CallEnds ==
    \/ \E i \in 1..Len(chunks) : EvaluateChunk(i, DispatchAnswers(chunks[i])) \/ ChunkFails(i)
    \/ batch # NoBatch /\ \E i \in 1..batch.total : ProposalReturns(i) \/ ProposalRaises(i)

\* A free pool thread takes a queued call.
ThreadStarts == batch # NoBatch /\ \E i \in 1..batch.total : StartProposal(i)

\* The thread of evaluate_proposal, or of the page, takes its next step.
MainStep ==
    \/ Pipeline
    \/ batch # NoBatch /\ ((\E i \in 1..batch.total : BatchCollect(i)) \/ BatchPartition)

SpecRun == InitRun /\ [][NextRun]_vars

SpecRunFair ==
    /\ InitRun
    /\ [][NextRun]_vars
    /\ WF_vars(CallEnds)
    /\ WF_vars(ThreadStarts)
    /\ WF_vars(MainStep)

----------------------------------------------------------------------------
(* Claims about the normalization of an oracle payload (SpecNormalize) *)

\* The payload whose normalization returned or raised, and the outcome.
Normalized == pc = "returned" /\ unit.ret # <<>>

\* The payload parsed to an object that has the key "scores".
CarriesScores(p) == ParseContent(p.text) = "object" /\ p.object.has_scores

LacksRequired(s) == s.requirement_id = <<>> \/ s.met = <<>>

OutOfRange(s) == s.confidence # <<>> /\ (s.confidence[1] < 0 \/ s.confidence[1] > 100)

\* C15: a parsed record without requirement_id or without met makes the
\* normalization raise and return no score; when the normalization returns,
\* every record of the payload has its score, with the id and the met value the
\* record holds: no record is skipped, no value is guessed.
C15_MissingFieldIsHardError ==
    Normalized => LET p == unit.args[1]
                      r == unit.ret[1]
                      rs == p.object.scores
                  IN  CarriesScores(p) =>
                        /\ (\E k \in 1..Len(rs) : LacksRequired(rs[k]))
                              => r.error \in {"KeyError", "ValidationError"} /\ r.scores = <<>>
                        /\ r.error = ""
                              => /\ Len(r.scores) = Len(rs)
                                 /\ \A k \in 1..Len(rs) :
                                       /\ <<r.scores[k].requirement_id>> = rs[k].requirement_id
                                       /\ <<r.scores[k].met>> = rs[k].met

\* A well-formed first record followed by a record without met: KeyError.
C15_Witness ==
    /\ Normalized
    /\ CarriesScores(unit.args[1])
    /\ Len(unit.args[1].object.scores) = 2
    /\ ~LacksRequired(unit.args[1].object.scores[1])
    /\ ~OutOfRange(unit.args[1].object.scores[1])
    /\ unit.args[1].object.scores[2].requirement_id = <<1>>
    /\ unit.args[1].object.scores[2].met = <<>>
    /\ unit.ret[1].error = "KeyError"

\* C16: a payload is parsed directly, then from its first { to its last },
\* and raises a parse error when both fail; a payload that does not carry a
\* scores list never yields a returned (empty or partial) score list.
C16_NoSilentBestEffort ==
    Normalized => LET p == unit.args[1]
                      r == unit.ret[1]
                  IN  /\ ParseContent(p.text) \notin {"object", "array"}
                           => r.error \in {"ValueError", "JSONDecodeError"}
                      /\ ~CarriesScores(p) => r.error # ""

\* C17: a record whose confidence is outside [0,1] makes the normalization
\* raise; every score the normalization returns has the confidence its record
\* holds (0.5 when absent), within [0,1].
C17_ConfidenceInRange ==
    Normalized => LET p == unit.args[1]
                      r == unit.ret[1]
                      rs == p.object.scores
                  IN  CarriesScores(p) =>
                        /\ (\E k \in 1..Len(rs) : OutOfRange(rs[k]))
                              => r.error # "" /\ r.scores = <<>>
                        /\ r.error = ""
                              => \A k \in 1..Len(r.scores) :
                                    /\ r.scores[k].confidence \in 0..100
                                    /\ r.scores[k].confidence =
                                          IF rs[k].confidence = <<>> THEN 50
                                          ELSE rs[k].confidence[1]

\* A well-formed first record followed by a record of confidence 1.5.
C17_Witness ==
    /\ Normalized
    /\ CarriesScores(unit.args[1])
    /\ Len(unit.args[1].object.scores) = 2
    /\ ~LacksRequired(unit.args[1].object.scores[1])
    /\ ~OutOfRange(unit.args[1].object.scores[1])
    /\ ~LacksRequired(unit.args[1].object.scores[2])
    /\ unit.args[1].object.scores[2].confidence = <<150>>
    /\ unit.ret[1].error = "ValidationError"

----------------------------------------------------------------------------
(* Claims about parse_file (SpecParse) *)

\* C20: parse_file calls load_data at most twice; the second call happens
\* only after a first call failed with "TCPTransport closed" or "handler is
\* closed" in its message, and uses a new parser; any other failure of the
\* first call and any failure of the second call is raised to the caller.
C20_RetryOnceOnTransportError ==
    LET loads == unit.args[1]
        first == loads[1]
        second == loads[2]
        transport == \E k \in 1..Len(first.error) :
                        first.error[k] \in {"TCPTransport closed", "handler is closed"}
    IN  /\ Len(unit.used) <= 2
        /\ Len(unit.used) = 2 => transport /\ unit.used[1] # unit.used[2]
        /\ pc \in {"returned", "raised"} =>
              /\ Len(unit.used) = IF transport THEN 2 ELSE 1
              /\ IF first.error = <<>>
                 THEN pc = "returned" /\ unit.ret = <<JoinTexts(first.docs)>>
                 ELSE IF ~transport
                 THEN pc = "raised" /\ unit.error = first.error /\ unit.ret = <<>>
                 ELSE IF second.error = <<>>
                 THEN pc = "returned" /\ unit.ret = <<JoinTexts(second.docs)>>
                 ELSE pc = "raised" /\ unit.error = second.error /\ unit.ret = <<>>

\* Both calls fail with a transport error: the second one is raised, although
\* a third call would have succeeded.
C20_Witness ==
    /\ pc = "raised"
    /\ unit.used = <<1, 2>>
    /\ unit.args[1][1].error = <<"Connection lost: ", "TCPTransport closed">>
    /\ unit.args[1][2].error = <<"the ", "handler is closed">>
    /\ unit.error = <<"the ", "handler is closed">>
    /\ unit.args[1][3].error = <<>>

----------------------------------------------------------------------------
(* Claims about the batch of proposals (SpecBatch) *)

\* C13: a proposal that raises neither cancels nor fails another one: when the
\* as_completed loop has ended every future has finished and results holds each
\* future's own outcome; when the batch is done every proposal file is, exactly
\* once, either in evaluations (its evaluation) or in failed (its file name and
\* its exception), so that the two lengths add up to the number of files.
C13_EveryProposalAccounted ==
    /\ pc \in {"partition", "done"} =>
          \A i \in 1..batch.total :
             /\ batch.future[i] = "finished"
             /\ batch.outcome[i].kind \in {"ProposalEvaluation", "Exception"}
             /\ batch.outcome[i].of = i
             /\ batch.results[i] = batch.outcome[i]
    /\ pc = "done" =>
          /\ Len(batch.evaluations) + Len(batch.failed) = batch.total
          /\ \A i \in 1..batch.total :
                LET asEvaluation == { k \in 1..Len(batch.evaluations) :
                                         batch.evaluations[k].of = i }
                    asFailed == { k \in 1..Len(batch.failed) : batch.failed[k].name = i }
                IN  IF batch.outcome[i].kind = "ProposalEvaluation"
                    THEN /\ Cardinality(asEvaluation) = 1
                         /\ asFailed = {}
                         /\ \A k \in asEvaluation : batch.evaluations[k] = batch.outcome[i]
                    ELSE /\ Cardinality(asFailed) = 1
                         /\ asEvaluation = {}
                         /\ \A k \in asFailed : batch.failed[k].error = batch.outcome[i]

\* A batch whose first completed proposal raised, with evaluations returned
\* for proposals that completed after it.
C13_Witness ==
    /\ pc = "done"
    /\ batch.total = MAX_WORKERS + 1
    /\ batch.outcome[batch.order[1]].kind = "Exception"
    /\ Len(batch.failed) = 2
    /\ Len(batch.evaluations) = 3

\* C14: evaluations and failed are in the order of the proposal files,
\* whatever the order in which the futures completed.
C14_BatchInInputOrder ==
    pc = "done" =>
       /\ \A j, k \in 1..Len(batch.evaluations) :
             j < k => batch.evaluations[j].of < batch.evaluations[k].of
       /\ \A j, k \in 1..Len(batch.failed) :
             j < k => batch.failed[j].name < batch.failed[k].name

\* The futures completed in the reverse of the file order.
C14_Witness ==
    /\ pc = "done"
    /\ batch.order = <<4, 3, 2, 1>>
    /\ Len(batch.evaluations) = 2
    /\ Len(batch.failed) = 2

----------------------------------------------------------------------------
(* Claims about termination (SpecRunFair) *)

\* Every proposal of the batch has its evaluation or its exception listed.
BatchResolved ==
    /\ batch # NoBatch
    /\ pc = "done"
    /\ Len(batch.evaluations) + Len(batch.failed) = batch.total
    /\ \A i \in 1..batch.total : batch.results[i] # None

\* C21: when every call under way returns or raises and threads are scheduled
\* fairly, an evaluation that started ends with its Evaluation or with a
\* failure, and a batch that started completes with every proposal resolved.
C21_Terminates ==
    /\ (batch = NoBatch /\ pc = "start")
          ~> (batch = NoBatch /\ (pc = "failed" \/ (pc = "done" /\ evaluation # <<>>)))
    /\ (batch # NoBatch /\ pc = "as_completed") ~> BatchResolved

\* A batch of more files than pool threads has completed.
C21_Witness ==
    /\ BatchResolved
    /\ batch.total > MAX_WORKERS
    /\ Len(batch.failed) > 0

----------------------------------------------------------------------------
(* Claims about the gate and the scorer on unusual oracle output (Spec) *)

\* C22: no requirement id occurs twice in the gate's failures, so the score
\* cap is the one of the number of distinct failed mandatory requirements.
C22_FailuresAreASet ==
    GateComputed =>
        LET f == mandatory_gate.failures
            distinct == { f[k] : k \in 1..Len(f) }
        IN  /\ Len(f) = Cardinality(distinct)
            /\ mandatory_gate.score_cap = ScoreCap(Cardinality(distinct))

\* C23: when the gate has passed, every mandatory requirement of the document
\* has a score that is met.
C23_PassedMeansAllMandatoryMet ==
    (GateComputed /\ mandatory_gate.passed) =>
        \A k \in 1..Len(doc) :
            doc[k].type = "mandatory" =>
                \E j \in 1..Len(raw_scores) :
                    raw_scores[j].requirement_id = doc[k].id /\ raw_scores[j].met

----------------------------------------------------------------------------
(* Claims about the weights of unknown types and priorities (SpecWeights) *)

\* The weight of score s under document d when a priority outside the table
\* weighs u and a type outside the table weighs 1.0.
C24_Weight(s, d, u) ==
    LET hits == { k \in 1..Len(d) : d[k].id = s.requirement_id }
        r == d[CHOOSE k \in hits : TRUE]
        t == IF hits = {} THEN "functional" ELSE r.type
        p == IF hits = {} THEN "Medium" ELSE r.priority
        tw == CASE t = "mandatory" -> 30 [] t = "integration" -> 20 [] t = "technical" -> 15
                [] t = "functional" -> 10 [] t = "delivery" -> 8 [] OTHER -> 10
        pw == CASE p = "High" -> 3 [] p = "Medium" -> 2 [] p = "Low" -> 1 [] OTHER -> u
    IN  tw * pw

\* The returned raw score is the one of the weights C24_Weight(_, _, u).
C24_ScoreUnder(u) ==
    pc = "returned" =>
        LET scores == unit.args[1]
            d == unit.args[2]
            n == Len(scores)
            total == SumIdx([k \in 1..n |-> C24_Weight(scores[k], d, u)], n)
            earned == SumIdx([k \in 1..n |->
                                 IF scores[k].met
                                 THEN C24_Weight(scores[k], d, u) * scores[k].confidence
                                 ELSE 0], n)
        IN  /\ total = 0 => unit.ret[1] = 0
            /\ total > 0 => IsNearest(unit.ret[1], 10 * earned, total)

----------------------------------------------------------------------------
(* Claims about the two worker pools (SpecRun) *)

\* C25: the proposals of a batch that are being processed are never more than
\* min(number of proposal files, 4); a dispatch has one future per chunk and,
\* until the first chunk call ends, all of them are running.
C25_PoolSizes ==
    /\ batch # NoBatch =>
          Cardinality({ i \in 1..batch.total : batch.future[i] = "running" })
             <= (IF batch.total < 4 THEN batch.total ELSE 4)
    /\ pc \in {"dispatch", "joining"} =>
          /\ Len(worker) = Len(chunks)
          /\ (\A k \in 1..Len(chunks) : hist.calls[k] = 0)
                => \A k \in 1..Len(chunks) : worker[k] = "running"

\* Four proposals of a batch of five are being processed, the fifth waits.
C25_Witness ==
    /\ batch # NoBatch
    /\ batch.total = 5
    /\ \A i \in 1..4 : batch.future[i] = "running"
    /\ batch.future[5] = "queued"

----------------------------------------------------------------------------
(* Claims about the document without requirements and about failed chunks *)

\* C26: evaluate_proposal on a document without requirements does not fail,
\* and the Evaluation it returns has raw_score 0.0 and match_percentage 0.0.
C26_EmptyDocumentScoresZero ==
    doc = <<>> =>
        /\ pc # "failed"
        /\ Returned => evaluation[1].raw_score = 0 /\ evaluation[1].match_percentage = 0

\* C27: when the failure of a chunk call has left evaluate_proposal, every
\* chunk call of the dispatch was made and has returned or raised, also those
\* that were running when the failure was seen: none was cancelled.
C27_FailureAfterAllChunksEnd ==
    /\ (pc = "failed" /\ chunks # <<>>) =>
          \A k \in 1..Len(chunks) : worker[k] \in {"ok", "failed"} /\ hist.calls[k] = 1
    /\ pc = "joining" =>
          \A k \in 1..Len(chunks) : worker[k] \in {"running", "ok", "failed"}

\* The failure of the first chunk was seen while both other chunk calls were
\* running; both have returned by the time the failure is reported.
C27_Witness ==
    /\ pc = "failed"
    /\ Len(chunks) = 3
    /\ worker = <<"failed", "ok", "ok">>
    /\ hist.waited = {2, 3}
    /\ Len(out[2]) > 0 /\ Len(out[3]) > 0

====
